---- MODULE Spec2Model ----
(***************************************************************************)
(* Model of the coordinate pipeline of mapa_proposta.py:                   *)
(*   parse_coordinate  (text or number -> signed decimal degrees or None)  *)
(*   carregar_dados    (parse both columns, filter, report, override)      *)
(*                                                                         *)
(* Text is a sequence of one-character atoms.  Three characters that are   *)
(* not ASCII are written as named atoms: "deg" (the degree sign),          *)
(* "prime" (the prime mark) and "dprime" (the double prime mark).          *)
(*                                                                         *)
(* A Python float is a record [k, u]: k = "fin" with u the value in units  *)
(* of 1/Scale degree (a fixed grid standing for the binary grid of IEEE    *)
(* doubles; float() rounds to the nearest grid point), k = "nan", or       *)
(* k = "inf" with u the sign.  The grid has one zero: 0.0 and -0.0 of      *)
(* Python, which compare equal, are the same value.  None is the record    *)
(* with k = "None" and an exception that leaves the function is the record *)
(* with k = "raise".                                                       *)
(***************************************************************************)
EXTENDS Integers, Sequences, FiniteSets, TLC

VARIABLES coord_str, is_latitude, result, shape, pc,
          sheet, df_before_filter, df, removed, printed, df2, removed2

vars == <<coord_str, is_latitude, result, shape, pc,
          sheet, df_before_filter, df, removed, printed, df2, removed2>>

-----------------------------------------------------------------------------
(* Floats                                                                  *)

\* units per degree: 1/10000 degree = 9 units, 1 minute = 1500, 1 second = 25
Scale == 9 * 10000

Fin(u) == [k |-> "fin", u |-> u]
NaN == [k |-> "nan", u |-> 0]
Inf(sg) == [k |-> "inf", u |-> sg]
None == [k |-> "None", u |-> 0]
Raised == [k |-> "raise", u |-> 0]

\* position of a float on the extended real line (nan has none)
Ord(x) == IF x.k = "inf" THEN x.u * 2000000000 ELSE x.u

FLt(a, b) == a.k # "nan" /\ b.k # "nan" /\ Ord(a) < Ord(b)
FLe(a, b) == a.k # "nan" /\ b.k # "nan" /\ Ord(a) <= Ord(b)
FNeg(x) == IF x.k = "nan" THEN x ELSE [x EXCEPT !.u = -(x.u)]
FAbs(x) == IF x.k = "nan" THEN x ELSE [x EXCEPT !.u = IF x.u < 0 THEN -(x.u) ELSE x.u]
FMulSign(sg, x) == IF sg < 0 THEN FNeg(x) ELSE x

-----------------------------------------------------------------------------
(* Text                                                                    *)

DigitSeq == <<"0", "1", "2", "3", "4", "5", "6", "7", "8", "9">>
DigitChars == {DigitSeq[i] : i \in 1..10}
DigitVal(ch) == (CHOOSE i \in 1..10 : DigitSeq[i] = ch) - 1

LowerSeq == <<"a", "b", "c", "d", "e", "f", "g", "h", "i", "j", "k", "l", "m",
              "n", "o", "p", "q", "r", "s", "t", "u", "v", "w", "x", "y", "z">>
UpperSeq == <<"A", "B", "C", "D", "E", "F", "G", "H", "I", "J", "K", "L", "M",
              "N", "O", "P", "Q", "R", "S", "T", "U", "V", "W", "X", "Y", "Z">>
LetterChars == {LowerSeq[i] : i \in 1..26} \cup {UpperSeq[i] : i \in 1..26}

\* \w of the re module: letters, digits and the underscore
WordChars == LetterChars \cup DigitChars \cup {"_"}
\* \s of the re module and the characters str.strip() removes
SpaceChars == {" ", "\t", "\n"}

\* str.upper(), one character
UpperCh(ch) ==
    IF \E i \in 1..26 : LowerSeq[i] = ch
    THEN UpperSeq[CHOOSE i \in 1..26 : LowerSeq[i] = ch]
    ELSE ch

\* str.strip()
Strip(s) ==
    IF \A i \in 1..Len(s) : s[i] \in SpaceChars THEN <<>>
    ELSE LET a == CHOOSE i \in 1..Len(s) :
                      s[i] \notin SpaceChars /\ \A j \in 1..(i - 1) : s[j] \in SpaceChars
             b == CHOOSE i \in 1..Len(s) :
                      s[i] \notin SpaceChars /\ \A j \in (i + 1)..Len(s) : s[j] \in SpaceChars
         IN SubSeq(s, a, b)

\* coord_str.strip().replace(',', '.').upper()
Normalize(s) ==
    LET t == Strip(s)
    IN [i \in 1..Len(t) |-> IF t[i] = "," THEN "." ELSE UpperCh(t[i])]

\* sub occurs in s at position i
OccursAt(sub, s, i) ==
    i + Len(sub) - 1 <= Len(s) /\ \A j \in 1..Len(sub) : s[i + j - 1] = sub[j]

\* sub in s
Contains(sub, s) == \E i \in 1..Len(s) : OccursAt(sub, s, i)

\* s.replace(sub, ""): the non-overlapping occurrences, left to right
RECURSIVE RemoveAll(_, _)
RemoveAll(sub, s) ==
    IF s = <<>> THEN <<>>
    ELSE IF OccursAt(sub, s, 1) THEN RemoveAll(sub, SubSeq(s, Len(sub) + 1, Len(s)))
    ELSE <<s[1]>> \o RemoveAll(sub, SubSeq(s, 2, Len(s)))

\* \b[NSWE]\b matches s at position i
CardinalAt(s, i) ==
    /\ s[i] \in {"N", "S", "W", "E"}
    /\ (i = 1 \/ s[i - 1] \notin WordChars)
    /\ (i = Len(s) \/ s[i + 1] \notin WordChars)

\* re.sub(r'\b[NSWE]\b', '', c)
RemoveCardinals(s) ==
    LET keep == {i \in 1..Len(s) : ~CardinalAt(s, i)}
        RECURSIVE Pick(_)
        Pick(i) == IF i > Len(s) THEN <<>>
                   ELSE IF i \in keep THEN <<s[i]>> \o Pick(i + 1)
                   ELSE Pick(i + 1)
    IN Pick(1)

\* first position at or after i whose character is not in S (Len(s)+1 if none)
SkipSet(s, i, S) ==
    CHOOSE j \in i..(Len(s) + 1) :
        /\ (j = Len(s) + 1 \/ s[j] \notin S)
        /\ \A n \in i..(j - 1) : s[n] \in S

Pow10(n) == CASE n = 0 -> 1 [] n = 1 -> 10 [] n = 2 -> 100 [] n = 3 -> 1000
              [] n = 4 -> 10000 [] n = 5 -> 100000 [] n = 6 -> 1000000
              [] n = 7 -> 10000000 [] OTHER -> 100000000

\* the number a run of decimal digits writes
RECURSIVE DigitsVal(_)
DigitsVal(ds) ==
    IF ds = <<>> THEN 0
    ELSE 10 * DigitsVal(SubSeq(ds, 1, Len(ds) - 1)) + DigitVal(ds[Len(ds)])

\* the grid point nearest to 0.<fs>
FracUnits(fs) ==
    LET n == Len(fs)
        v == DigitsVal(fs)
    IN IF n <= 4 THEN v * 9 * Pow10(4 - n)
       ELSE (v * 18 + Pow10(n - 4)) \div (2 * Pow10(n - 4))

-----------------------------------------------------------------------------
(* float() and str() of Python                                             *)

ValueError == [k |-> "ValueError", u |-> 0]
TypeError == [k |-> "TypeError", u |-> 0]

\* float(s) for a str: surrounding whitespace and a sign are accepted, then
\* nan / inf / infinity in any case, or digits with an optional fraction.
\* (Exponents and digit-group underscores are outside the inputs modelled.)
\* the digits b[1..i-1] and, after a point at i, b[i+1..j-1] must be all of b
FloatDigits(sg, b, i, j) ==
    IF j = Len(b) + 1 /\ (i > 1 \/ j > i + 1)
    THEN Fin(sg * (DigitsVal(SubSeq(b, 1, i - 1)) * Scale + FracUnits(SubSeq(b, i + 1, j - 1))))
    ELSE ValueError

FloatNumber(sg, b, i) ==
    FloatDigits(sg, b, i,
                IF i <= Len(b) /\ b[i] = "." THEN SkipSet(b, i + 1, DigitChars) ELSE i)

FloatUnsigned(sg, b, up) ==
    IF up = <<"N", "A", "N">> THEN NaN
    ELSE IF up = <<"I", "N", "F">> \/ up = <<"I", "N", "F", "I", "N", "I", "T", "Y">>
    THEN Inf(sg)
    ELSE FloatNumber(sg, b, SkipSet(b, 1, DigitChars))

FloatSigned(sg, b) == FloatUnsigned(sg, b, [n \in 1..Len(b) |-> UpperCh(b[n])])

FloatStripped(s) ==
    FloatSigned(IF s # <<>> /\ s[1] = "-" THEN -1 ELSE 1,
                IF s # <<>> /\ s[1] \in {"-", "+"} THEN Tail(s) ELSE s)

Float(s0) == FloatStripped(Strip(s0))

\* the decimal digits of a natural number
RECURSIVE NatStr(_)
NatStr(n) == IF n < 10 THEN <<DigitSeq[n + 1]>>
             ELSE NatStr(n \div 10) \o <<DigitSeq[(n % 10) + 1]>>

\* s without its trailing zeros, one character at least
RECURSIVE TrimZeros(_)
TrimZeros(s) == IF Len(s) > 1 /\ s[Len(s)] = "0" THEN TrimZeros(SubSeq(s, 1, Len(s) - 1))
                ELSE s

\* s padded on the left with zeros to n characters
RECURSIVE PadZeros(_, _)
PadZeros(s, n) == IF Len(s) >= n THEN s ELSE PadZeros(<<"0">> \o s, n)

\* str(x) for a float: repr's fixed notation with as many digits as bring
\* float() back to the same grid point (six decimals do: the grid step is
\* above 1e-5), never fewer than one decimal digit.
\* (Nonzero values below 1e-4, which repr writes with an exponent, are
\* outside the inputs modelled.)
\* variant: two decimals only, the rest cut off
StrFinite_TwoDecimals(neg, a) ==
    (IF neg THEN <<"-">> ELSE <<>>) \o NatStr(a \div Scale) \o <<".">>
    \o PadZeros(NatStr(((a % Scale) * 100) \div Scale), 2)

StrFinite(neg, a) ==
    (IF neg THEN <<"-">> ELSE <<>>) \o NatStr(a \div Scale) \o <<".">>
    \o TrimZeros(PadZeros(NatStr(((a % Scale) * 200 + 9) \div 18), 6))

StrFloat(x) ==
    IF x.k = "nan" THEN <<"n", "a", "n">>
    ELSE IF x.k = "inf" THEN (IF x.u < 0 THEN <<"-">> ELSE <<>>) \o <<"i", "n", "f">>
    ELSE StrFinite(x.u < 0, IF x.u < 0 THEN -(x.u) ELSE x.u)

\* str(x) of a spreadsheet cell or argument
Str(x) == CASE x.t = "str" -> x.s
            [] x.t = "float" -> StrFloat(x.v)
            [] x.t = "int" -> (IF x.v.u < 0 THEN <<"-">> ELSE <<>>)
                              \o NatStr((IF x.v.u < 0 THEN -(x.v.u) ELSE x.v.u) \div Scale)
            [] OTHER -> <<"N", "o", "n", "e">>

\* float(x) for an argument that is not a str
CoerceFloat(x) == IF x.t \in {"float", "int"} THEN x.v ELSE TypeError

\* argument values
StrArg(s) == [t |-> "str", s |-> s, v |-> None]
FloatArg(v) == [t |-> "float", s |-> <<>>, v |-> v]
IntArg(n) == [t |-> "int", s |-> <<>>, v |-> Fin(n * Scale)]
NoneArg == [t |-> "NoneType", s |-> <<>>, v |-> None]

-----------------------------------------------------------------------------
(* parse_coordinate                                                        *)

NORTE == <<"N", "O", "R", "T", "E">>
SUL == <<"S", "U", "L">>
LESTE == <<"L", "E", "S", "T", "E">>
OESTE == <<"O", "E", "S", "T", "E">>

\* the hemisphere found in c ("" for none) and c without its marker
Hemisphere(c) ==
    IF Contains(NORTE, c) THEN [h |-> "N", c |-> Strip(RemoveAll(NORTE, c))]
    ELSE IF Contains(SUL, c) THEN [h |-> "S", c |-> Strip(RemoveAll(SUL, c))]
    ELSE IF Contains(LESTE, c) THEN [h |-> "E", c |-> Strip(RemoveAll(LESTE, c))]
    ELSE IF Contains(OESTE, c) THEN [h |-> "W", c |-> Strip(RemoveAll(OESTE, c))]
    ELSE IF \E i \in 1..Len(c) : CardinalAt(c, i)
    THEN [h |-> c[CHOOSE i \in 1..Len(c) :
                      CardinalAt(c, i) /\ \A j \in 1..(i - 1) : ~CardinalAt(c, j)],
          c |-> Strip(RemoveCardinals(c))]
    ELSE [h |-> "", c |-> Strip(c)]

\* end of \d+(?:\.\d+)? at position i of s, 0 when it does not match there
NumEnd(s, i) ==
    LET d == SkipSet(s, i, DigitChars)
    IN IF d = i THEN 0
       ELSE IF d + 1 <= Len(s) /\ s[d] = "." /\ s[d + 1] \in DigitChars
       THEN SkipSet(s, d + 1, DigitChars)
       ELSE d

\* end of [S]+ at position i of s, 0 when it does not match there
SepEnd(s, i, S) == LET e == SkipSet(s, i, S) IN IF e = i THEN 0 ELSE e

DegSeps == {"deg", ":"} \cup SpaceChars
MinSeps == {"'", "prime"} \cup SpaceChars
SecMarks == {"\"", "dprime"}

DmsFail == [ok |-> FALSE, g1 |-> <<>>, g2 |-> <<>>, g3 |-> <<>>]

\* the seconds end at n3 - 1; an optional seconds mark, then the end of c
DmsSec(c, n1, e1, n2, e2, n3) ==
    IF n3 # 0 /\ (n3 = Len(c) + 1 \/ (n3 = Len(c) /\ c[n3] \in SecMarks))
    THEN [ok |-> TRUE, g1 |-> SubSeq(c, 1, n1 - 1), g2 |-> SubSeq(c, e1, n2 - 1),
          g3 |-> SubSeq(c, e2, n3 - 1)]
    ELSE DmsFail

DmsMinSep(c, n1, e1, n2, e2) ==
    IF e2 = 0 THEN DmsFail ELSE DmsSec(c, n1, e1, n2, e2, NumEnd(c, e2))

DmsMin(c, n1, e1, n2) ==
    IF n2 = 0 THEN DmsFail ELSE DmsMinSep(c, n1, e1, n2, SepEnd(c, n2, MinSeps))

DmsDegSep(c, n1, e1) ==
    IF e1 = 0 THEN DmsFail ELSE DmsMin(c, n1, e1, NumEnd(c, e1))

DmsDeg(c, n1) ==
    IF n1 = 0 THEN DmsFail ELSE DmsDegSep(c, n1, SepEnd(c, n1, DegSeps))

\* ^(-?\d+(?:\.\d+)?)[deg:\s]+(\d+(?:\.\d+)?)['prime\s]+(\d+(?:\.\d+)?)(?:["dprime])?$
\* (each part is matched greedily: no separator is a digit or a point, so no
\* other split of c matches)
DmsGroups(c) == DmsDeg(c, NumEnd(c, IF c # <<>> /\ c[1] = "-" THEN 2 ELSE 1))

\* dms_pattern.match(c)
DmsPattern(c) == DmsGroups(c).ok

\* a / b rounded to the nearest grid point, a >= 0
RoundDiv(a, b) == (2 * a + b) \div (2 * b)

\* variant: minutes and seconds read as hundredths
DmsDec_Hundredths(deg, mn, sc) ==
    Fin(FAbs(deg).u + RoundDiv(mn.u, 100) + RoundDiv(sc.u, 10000))

\* abs(deg) + mn/60 + sc/3600
DmsDec(deg, mn, sc) == Fin(FAbs(deg).u + RoundDiv(mn.u, 60) + RoundDiv(sc.u, 3600))

NoMagnitude(k) == [k |-> k, dec |-> None, sign |-> 1]

\* float() of the three groups (not inside a try), the magnitude, and the
\* sign of the degrees
MagnitudeOfGroups(deg, mn, sc) ==
    IF deg = ValueError \/ mn = ValueError \/ sc = ValueError THEN NoMagnitude("raise")
    ELSE [k |-> "ok", dec |-> DmsDec(deg, mn, sc), sign |-> IF FLt(deg, Fin(0)) THEN -1 ELSE 1]

MagnitudeDms(m) ==
    IF ~m.ok THEN NoMagnitude("None")
    ELSE MagnitudeOfGroups(Float(m.g1), Float(m.g2), Float(m.g3))

\* variant: float(c) with no except clause
MagnitudeDecimal_NoExcept(dec) ==
    IF dec = ValueError THEN NoMagnitude("raise")
    ELSE [k |-> "ok", dec |-> FAbs(dec), sign |-> IF FLt(dec, Fin(0)) THEN -1 ELSE 1]

\* float(c) inside try / except ValueError
MagnitudeDecimal(dec) ==
    IF dec = ValueError THEN NoMagnitude("None")
    ELSE [k |-> "ok", dec |-> FAbs(dec), sign |-> IF FLt(dec, Fin(0)) THEN -1 ELSE 1]

\* the magnitude and sign_from_number of c; k = "None" or "raise" when the
\* function ends here
Magnitude(c) ==
    IF DmsPattern(c) THEN MagnitudeDms(DmsGroups(c)) ELSE MagnitudeDecimal(Float(c))

\* the sign the hemisphere gives, else the sign of the number and then the
\* regional default (South, West)
\* variant: the default negates whatever the sign is
DefaultSign_AlwaysNegate(d) == FNeg(d)

\* variant: no regional default
DefaultSign_Absent(d) == d

\* if dec > 0: dec = -dec
DefaultSign(d) == IF FLt(Fin(0), d) THEN FNeg(d) ELSE d

\* variant: North and East keep the sign written in the number
ResolveSign_NorthKeepsSign(hemisphere, dec, sign_from_number) ==
    IF hemisphere \in {"S", "W"} THEN FNeg(FAbs(dec))
    ELSE IF hemisphere \in {"N", "E"} THEN FMulSign(sign_from_number, dec)
    ELSE DefaultSign(FMulSign(sign_from_number, dec))

ResolveSign(hemisphere, dec, sign_from_number) ==
    IF hemisphere \in {"S", "W"} THEN FNeg(FAbs(dec))
    ELSE IF hemisphere \in {"N", "E"} THEN FAbs(dec)
    ELSE DefaultSign(FMulSign(sign_from_number, dec))

MaxLatitude == 90
MaxLongitude == 180

InRange(dec, is_lat) ==
    IF is_lat THEN FLe(Fin(-MaxLatitude * Scale), dec) /\ FLe(dec, Fin(MaxLatitude * Scale))
    ELSE FLe(Fin(-MaxLongitude * Scale), dec) /\ FLe(dec, Fin(MaxLongitude * Scale))

\* try: return float(coord_str) / except: return None
ParseCoerced(f) == IF f = TypeError \/ f = ValueError THEN None ELSE f

\* the branch for an argument that is not a str
ParseNonString(x) == ParseCoerced(CoerceFloat(x))

\* the range check that ends the function
Validate(dec, is_lat) == IF ~InRange(dec, is_lat) THEN None ELSE dec

ParseSigned(hemisphere, mg, is_lat) ==
    IF mg.k = "None" THEN None
    ELSE IF mg.k = "raise" THEN Raised
    ELSE Validate(ResolveSign(hemisphere, mg.dec, mg.sign), is_lat)

ParseNormalized(hc, is_lat) == ParseSigned(hc.h, Magnitude(hc.c), is_lat)

\* the branch for a str
ParseString(s, is_lat) == ParseNormalized(Hemisphere(Normalize(s)), is_lat)

parse_coordinate(x, is_lat) ==
    IF x.t # "str" THEN ParseNonString(x) ELSE ParseString(x.s, is_lat)

-----------------------------------------------------------------------------
(* The calls of parse_coordinate.  shape records how the argument was      *)
(* written: the sign, the magnitude (worked out by hand, in grid units)    *)
(* and the hemisphere marker that were put into the text.                  *)

\* decimal numerals and the magnitude each one writes
NumLits ==
    { [txt |-> <<"0">>, u |-> 0],
      [txt |-> <<"3", ".", "5">>, u |-> 315000],
      [txt |-> <<"5">>, u |-> 450000],
      [txt |-> <<"1", "0", ".", "0">>, u |-> 900000],
      [txt |-> <<"2", "1", ".", "5">>, u |-> 1935000],
      [txt |-> <<"2", "1", ".", "4", "7", "5", "5">>, u |-> 1932795],
      [txt |-> <<"2", "1", ",", "4", "7", "5", "5">>, u |-> 1932795],
      [txt |-> <<"3", "4">>, u |-> 3060000],
      [txt |-> <<"5", "6", ".", "1", "4", "9", "5">>, u |-> 5053455],
      [txt |-> <<"9", "0">>, u |-> 8100000],
      [txt |-> <<"9", "0", ".", "5">>, u |-> 8145000],
      [txt |-> <<"9", "5", ".", "0">>, u |-> 8550000],
      [txt |-> <<"1", "8", "0">>, u |-> 16200000],
      [txt |-> <<"2", "0", "0", ".", "0">>, u |-> 18000000] }

\* hemisphere markers: the text, the hemisphere it names, and whether it is
\* written before the number
Markers ==
    { [txt |-> <<>>, hemi |-> "", pre |-> FALSE],
      [txt |-> <<" ", "N">>, hemi |-> "N", pre |-> FALSE],
      [txt |-> <<" ", "S">>, hemi |-> "S", pre |-> FALSE],
      [txt |-> <<" ", "E">>, hemi |-> "E", pre |-> FALSE],
      [txt |-> <<" ", "W">>, hemi |-> "W", pre |-> FALSE],
      [txt |-> <<" ", "N", "O", "R", "T", "E">>, hemi |-> "N", pre |-> FALSE],
      [txt |-> <<" ", "S", "U", "L">>, hemi |-> "S", pre |-> FALSE],
      [txt |-> <<" ", "L", "E", "S", "T", "E">>, hemi |-> "E", pre |-> FALSE],
      [txt |-> <<" ", "O", "E", "S", "T", "E">>, hemi |-> "W", pre |-> FALSE],
      [txt |-> <<" ", "n">>, hemi |-> "N", pre |-> FALSE],
      [txt |-> <<" ", "s", "u", "l">>, hemi |-> "S", pre |-> FALSE],
      [txt |-> <<" ", "O", "e", "s", "t", "e">>, hemi |-> "W", pre |-> FALSE],
      [txt |-> <<"N", "O", "R", "T", "E">>, hemi |-> "N", pre |-> FALSE],
      [txt |-> <<"S", " ">>, hemi |-> "S", pre |-> TRUE],
      [txt |-> <<"N", " ">>, hemi |-> "N", pre |-> TRUE] }

\* the separators of a degrees-minutes-seconds text
DmsStyles ==
    { [a |-> <<"deg">>, b |-> <<"'">>, z |-> <<"\"">>],
      [a |-> <<"deg", " ">>, b |-> <<"prime", " ">>, z |-> <<"dprime">>],
      [a |-> <<" ">>, b |-> <<" ">>, z |-> <<>>],
      [a |-> <<":">>, b |-> <<" ">>, z |-> <<>>] }

DmsDegrees == {0, 3, 21, 56, 95}
DmsMinutes == {0, 8, 28, 30}
DmsSeconds == {0, 32, 58}

\* strings that are neither a degrees-minutes-seconds text nor a number
MalformedStrings ==
    { <<>>,
      <<" ">>,
      <<"a", "b", "c">>,
      <<"-", "-", "5">>,
      <<"5", ".", "5", ".", "5">>,
      <<"2", "1", "deg">>,
      <<"2", "1", "deg", "2", "8", "'">>,
      <<"2", "1", ":", "2", "8", ":", "3", "2">>,
      <<".">>,
      <<"-">>,
      <<"+">>,
      <<"2", "1", ".", "5", "N">>,
      <<"5", " ", "X">>,
      <<"N">>,
      <<"S", "U", "L">>,
      <<"5", " ", "N", " ", "3">>,
      <<"2", "1", ".", "5", " ", "N", "O", "R", "T", "E", " ", "S", "U", "L">>,
      <<"1", ",", "5", ",", "5">>,
      <<"2", "1", "deg", "2", "8", "'", "3", "2", "\"", "5">> }

\* strings float() accepts that are not finite numbers
SpecialStrings ==
    { <<"n", "a", "n">>,
      <<"N", "a", "N">>,
      <<"i", "n", "f">>,
      <<"-", "i", "n", "f">>,
      <<"I", "n", "f", "i", "n", "i", "t", "y">>,
      <<" ", "n", "a", "n", " ">> }

\* arguments that are not strings
NumberArgs ==
    {FloatArg(Fin(u)) : u \in {0, 315000, -1935000, 8550000, -8550000, 18000000, -18090000}}
    \cup {FloatArg(NaN), FloatArg(Inf(1)), FloatArg(Inf(-1))}
    \cup {IntArg(n) : n \in {5, -21, 95, 200}}
UncoercibleArgs == {NoneArg}

SignText(sgn) == IF sgn = "" THEN <<>> ELSE <<sgn>>

Render(sgn, body, mk, pad) ==
    pad \o (IF mk.pre THEN mk.txt \o SignText(sgn) \o body
            ELSE SignText(sgn) \o body \o mk.txt) \o pad

DmsBody(d, m, s, st) == NatStr(d) \o st.a \o NatStr(m) \o st.b \o NatStr(s) \o st.z

\* |d| + m/60 + s/3600 in grid units: a minute is 1500 units, a second 25
DmsUnits(d, m, s) == d * Scale + m * 1500 + s * 25

Shape(kind, sgn, mag, hemi) == [kind |-> kind, sgn |-> sgn, mag |-> mag, hemi |-> hemi]

NoSheet == <<>>

PipelineIdle ==
    /\ sheet = NoSheet /\ df_before_filter = <<>> /\ df = <<>> /\ removed = <<>>
    /\ printed = <<>> /\ df2 = <<>> /\ removed2 = <<>>

InitDecimal ==
    \E sgn \in {"", "-", "+"}, lit \in NumLits, mk \in Markers, pad \in {<<>>, <<" ">>} :
        /\ coord_str = StrArg(Render(sgn, lit.txt, mk, pad))
        /\ shape = Shape("decimal", sgn, lit.u, mk.hemi)

InitDms ==
    \E sgn \in {"", "-"}, d \in DmsDegrees, m \in DmsMinutes, s \in DmsSeconds,
       st \in DmsStyles, mk \in Markers :
        /\ coord_str = StrArg(Render(sgn, DmsBody(d, m, s, st), mk, <<>>))
        /\ shape = Shape("dms", sgn, DmsUnits(d, m, s), mk.hemi)

InitOther ==
    \/ \E t \in MalformedStrings :
           coord_str = StrArg(t) /\ shape = Shape("malformed", "", 0, "?")
    \/ \E t \in SpecialStrings :
           coord_str = StrArg(t) /\ shape = Shape("special", "", 0, "")
    \/ \E x \in NumberArgs :
           coord_str = x /\ shape = Shape("number", "", 0, "")
    \/ \E x \in UncoercibleArgs :
           coord_str = x /\ shape = Shape("uncoercible", "", 0, "")

InitParse ==
    /\ InitDecimal \/ InitDms \/ InitOther
    /\ is_latitude \in BOOLEAN
    /\ result = None
    /\ pc = "call"
    /\ PipelineIdle

\* result = parse_coordinate(coord_str, is_latitude)
Call ==
    /\ pc = "call"
    /\ result' = parse_coordinate(coord_str, is_latitude)
    /\ pc' = "return"
    /\ UNCHANGED <<coord_str, is_latitude, shape, sheet, df_before_filter, df, removed,
                   printed, df2, removed2>>

NextParse == Call

SpecParse == InitParse /\ [][NextParse]_vars

-----------------------------------------------------------------------------
(* carregar_dados                                                          *)

\* str.lower(), one character
LowerCh(ch) ==
    IF \E i \in 1..26 : UpperSeq[i] = ch
    THEN LowerSeq[CHOOSE i \in 1..26 : UpperSeq[i] = ch]
    ELSE ch

\* .astype(str).str.strip().str.capitalize()
Capitalize(s) ==
    LET t == Strip(s)
    IN [i \in 1..Len(t) |-> IF i = 1 THEN UpperCh(t[i]) ELSE LowerCh(t[i])]

\* .astype(str).str.strip().str.upper()
UpperStrip(s) == LET t == Strip(s) IN [i \in 1..Len(t) |-> UpperCh(t[i])]

BoxLatMin == -34
BoxLatMax == 5
BoxLonMin == -74
BoxLonMax == -34

\* the manual corrections, by NUMERO_PI (the identifiers are beyond 32 bits
\* and are written as text)
correcoes ==
    ("2520025827" :> <<Fin(-1932795), Fin(-5053455)>>)
    @@ ("2520052513" :> <<Fin(-2004885), Fin(-4785120)>>)

\* one row after the two parse_coordinate columns and the text columns
ParseRow(rows, i) ==
    [idx |-> i,
     NUMERO_PI |-> rows[i].NUMERO_PI,
     CULTURA |-> Capitalize(rows[i].CULTURA),
     UF |-> UpperStrip(rows[i].UF),
     Latitude |-> parse_coordinate(StrArg(Str(rows[i].Latitude)), TRUE),
     Longitude |-> parse_coordinate(StrArg(Str(rows[i].Longitude)), FALSE)]

ParseColumns(rows) == [i \in 1..Len(rows) |-> ParseRow(rows, i)]

\* Series.notna(): None and nan are missing
NotNa(v) == v.k \notin {"None", "nan"}

NotNaRow(r) == NotNa(r.Latitude) /\ NotNa(r.Longitude)

\* variant: no northern bound
InBox_NoNorthBound(r) ==
    /\ FLe(Fin(BoxLatMin * Scale), r.Latitude)
    /\ FLe(Fin(BoxLonMin * Scale), r.Longitude) /\ FLe(r.Longitude, Fin(BoxLonMax * Scale))

InBox(r) ==
    /\ FLe(Fin(BoxLatMin * Scale), r.Latitude) /\ FLe(r.Latitude, Fin(BoxLatMax * Scale))
    /\ FLe(Fin(BoxLonMin * Scale), r.Longitude) /\ FLe(r.Longitude, Fin(BoxLonMax * Scale))

\* the two filters, one after the other
FilterRows(t) == SelectSeq(SelectSeq(t, NotNaRow), InBox)

IndexOf(t) == {t[j].idx : j \in 1..Len(t)}

\* variant: the removed rows found by NUMERO_PI, not by index
RemovedRows_ById(before, after) ==
    LET Gone(r) == r.NUMERO_PI \notin {after[j].NUMERO_PI : j \in 1..Len(after)}
    IN SelectSeq(before, Gone)

\* df_before_filter[~df_before_filter.index.isin(df.index)]
RemovedRows(before, after) ==
    LET Gone(r) == r.idx \notin IndexOf(after)
    IN SelectSeq(before, Gone)

\* what the report prints of a removed row (to_string(index=False))
ReportLine(r) ==
    [NUMERO_PI |-> r.NUMERO_PI, Latitude |-> r.Latitude, Longitude |-> r.Longitude]

ReportOf(rem) == [removed |-> rem, printed |-> [j \in 1..Len(rem) |-> ReportLine(rem[j])]]

\* the report: printed only when rows were removed
Report(before, after) ==
    IF Len(after) < Len(before) THEN ReportOf(RemovedRows(before, after))
    ELSE [removed |-> <<>>, printed |-> <<>>]

\* df.loc[df["NUMERO_PI"] == pi, ["Latitude", "Longitude"]] = (lat, lon)
ApplyCorrecoes(t) ==
    [j \in 1..Len(t) |->
        IF t[j].NUMERO_PI \in DOMAIN correcoes
        THEN [t[j] EXCEPT !.Latitude = correcoes[t[j].NUMERO_PI][1],
                          !.Longitude = correcoes[t[j].NUMERO_PI][2]]
        ELSE t[j]]

\* df["Estado"] = "BR" + df["UF"]
AddEstado(t) ==
    [j \in 1..Len(t) |->
        [idx |-> t[j].idx, NUMERO_PI |-> t[j].NUMERO_PI, CULTURA |-> t[j].CULTURA,
         UF |-> t[j].UF, Latitude |-> t[j].Latitude, Longitude |-> t[j].Longitude,
         Estado |-> <<"B", "R">> \o t[j].UF]]

Returned(before, kept, rep) ==
    [raised |-> \E j \in 1..Len(before) :
                    before[j].Latitude = Raised \/ before[j].Longitude = Raised,
     df_before_filter |-> before,
     df |-> AddEstado(ApplyCorrecoes(kept)),
     removed |-> rep.removed,
     printed |-> rep.printed]

Filtered(before, kept) == Returned(before, kept, Report(before, kept))

Parsed(before) == Filtered(before, FilterRows(before))

carregar_dados(rows) == Parsed(ParseColumns(rows))

-----------------------------------------------------------------------------
(* The runs of carregar_dados                                              *)

\* rows of the sheet at most
MaxRows == 2

\* NUMERO_PI, CULTURA and UF of a sheet row
SheetKeys ==
    { [NUMERO_PI |-> "2520025827", CULTURA |-> <<" ", "s", "o", "j", "a">>, UF |-> <<"m", "s">>],
      [NUMERO_PI |-> "2520052513", CULTURA |-> <<"M", "I", "L", "H", "O">>, UF |-> <<"M", "S", " ">>],
      [NUMERO_PI |-> "2520000001", CULTURA |-> <<"t", "r", "i", "g", "o">>, UF |-> <<"p", "r">>] }

\* Latitude and Longitude cells of a sheet row: text, numbers, empty (nan)
SheetCells ==
    { <<StrArg(<<"-", "2", "1", ".", "5">>), StrArg(<<"-", "5", "6", ".", "1", "4", "9", "5">>)>>,
      <<StrArg(<<"2", "1", "deg", "2", "8", "'", "3", "2", "\"", " ", "S">>), StrArg(<<"5", "6", "deg", " ", "8", "prime", " ", "5", "8", "dprime", " ", "O", "e", "s", "t", "e">>)>>,
      <<StrArg(<<"3", ".", "5", " ", "N">>), StrArg(<<"-", "6", "0", ",", "5">>)>>,
      <<FloatArg(Fin(-1935000)), FloatArg(Fin(-4500000))>>,
      <<FloatArg(Fin(315000)), IntArg(-60)>>,
      <<StrArg(<<"1", "0", ".", "0", " ", "N">>), StrArg(<<"-", "5", "0">>)>>,
      <<StrArg(<<"a", "b", "c">>), StrArg(<<"-", "5", "0">>)>>,
      <<FloatArg(NaN), FloatArg(NaN)>>,
      <<StrArg(<<"-", "2", "1", ".", "5">>), StrArg(<<"5", "0", " ", "E">>)>>,
      <<StrArg(<<"9", "5">>), StrArg(<<"5", "0">>)>> }

SheetRows ==
    { [NUMERO_PI |-> k.NUMERO_PI, CULTURA |-> k.CULTURA, UF |-> k.UF,
       Latitude |-> c[1], Longitude |-> c[2]] : k \in SheetKeys, c \in SheetCells }

ParseIdle ==
    /\ coord_str = NoneArg /\ is_latitude = TRUE /\ result = None
    /\ shape = Shape("none", "", 0, "")

Init ==
    /\ \E n \in 1..MaxRows : sheet \in [1..n -> SheetRows]
    /\ df_before_filter = <<>> /\ df = <<>> /\ removed = <<>> /\ printed = <<>>
    /\ df2 = <<>> /\ removed2 = <<>>
    /\ pc = "start"
    /\ ParseIdle

\* df = carregar_dados(file_path, sheet_name)
Carregar ==
    /\ pc = "start"
    /\ \E r \in {carregar_dados(sheet)} :
          /\ pc' = IF r.raised THEN "raised" ELSE "loaded"
          /\ df_before_filter' = r.df_before_filter
          /\ df' = (IF r.raised THEN <<>> ELSE r.df)
          /\ removed' = r.removed
          /\ printed' = r.printed
    /\ UNCHANGED <<coord_str, is_latitude, result, shape, sheet, df2, removed2>>

\* the table that was returned, as a sheet: the coordinates are now numbers
AsSheet(t) ==
    [j \in 1..Len(t) |->
        [NUMERO_PI |-> t[j].NUMERO_PI, CULTURA |-> t[j].CULTURA, UF |-> t[j].UF,
         Latitude |-> FloatArg(t[j].Latitude), Longitude |-> FloatArg(t[j].Longitude)]]

\* carregar_dados again, on the table the first run returned
Recarregar ==
    /\ pc = "loaded"
    /\ \E r \in {carregar_dados(AsSheet(df))} :
          /\ pc' = IF r.raised THEN "raised" ELSE "reloaded"
          /\ df2' = (IF r.raised THEN <<>> ELSE r.df)
          /\ removed2' = r.removed
    /\ UNCHANGED <<coord_str, is_latitude, result, shape, sheet, df_before_filter, df,
                   removed, printed>>

Next == Carregar \/ Recarregar

Spec == Init /\ [][Next]_vars

-----------------------------------------------------------------------------
(* Properties of parse_coordinate (SpecParse)                              *)

HasReturned == pc = "return"

\* the magnitude written in the text lies in the range of the axis
InAxis == shape.mag <= (IF is_latitude THEN MaxLatitude ELSE MaxLongitude) * Scale

\* the result is a finite number inside the range of the axis
AxisValue(v) ==
    /\ v.k = "fin"
    /\ v.u >= -(IF is_latitude THEN MaxLatitude ELSE MaxLongitude) * Scale
    /\ v.u <= (IF is_latitude THEN MaxLatitude ELSE MaxLongitude) * Scale

\* C1: for every argument, a string or a number that is not a string, and
\* either axis, parse_coordinate returns None or a value inside the range
\* of the axis.
C1_ResultInAxisRange == HasReturned => (result = None \/ AxisValue(result))

\* C4 as stated: a decimal string with an explicit sign, '+' or '-', no
\* hemisphere marker and a value in the range of the axis comes back as
\* that same signed value.
C4_SignedDecimalUnchanged ==
    (HasReturned /\ shape.kind = "decimal" /\ shape.sgn \in {"+", "-"} /\ shape.hemi = "" /\ InAxis)
    => result = Fin(IF shape.sgn = "-" THEN -(shape.mag) ELSE shape.mag)

\* C4 as amended: such a string comes back as minus its magnitude: written
\* with '-' it is returned unchanged, written with '+' it is negated (zero
\* stays zero).
C4_SignedDecimalSouthWest ==
    (HasReturned /\ shape.kind = "decimal" /\ shape.sgn \in {"+", "-"} /\ shape.hemi = "" /\ InAxis)
    => result = Fin(-(shape.mag))

C4_Witness ==
    /\ HasReturned /\ shape.kind = "decimal" /\ shape.sgn = "-" /\ shape.hemi = ""
    /\ shape.mag > 0 /\ InAxis /\ result = Fin(-(shape.mag))

\* C5 as stated: for an in-range magnitude written with or without a leading
\* minus, a marker N / NORTE always gives a positive result and a marker
\* S / SUL always gives a negative result.
C5_MarkerGivesStrictSign ==
    (HasReturned /\ shape.kind \in {"decimal", "dms"} /\ shape.sgn \in {"", "-"} /\ InAxis)
    => /\ shape.hemi = "N" => (result.k = "fin" /\ result.u > 0)
       /\ shape.hemi = "S" => (result.k = "fin" /\ result.u < 0)

\* C5 as amended: with a marker N / NORTE the result is +m and with S / SUL
\* it is -m, whatever sign is written in the text: positive and negative
\* for every m other than zero, and zero for m = 0.
C5_MarkerDecidesSign ==
    (HasReturned /\ shape.kind \in {"decimal", "dms"} /\ shape.sgn \in {"", "-"} /\ InAxis)
    => /\ shape.hemi = "N" => result = Fin(shape.mag)
       /\ shape.hemi = "S" => result = Fin(-(shape.mag))

C5_Witness ==
    /\ HasReturned /\ shape.kind = "decimal" /\ shape.sgn = "-" /\ shape.hemi = "N"
    /\ shape.mag > 0 /\ InAxis /\ result = Fin(shape.mag)

\* C6: for a string in which no hemisphere marker is found, a result other
\* than None is never positive: it is minus the magnitude of the number, so
\* an unsigned number is negated and a number written negative is returned
\* as it is.
C6_RegionalDefault ==
    (HasReturned /\ coord_str.t = "str" /\ shape.hemi = "" /\ result # None)
    => /\ result.k = "fin" /\ result.u <= 0
       /\ shape.kind \in {"decimal", "dms"} => result = Fin(-(shape.mag))

C6_Witness ==
    /\ HasReturned /\ shape.kind = "dms" /\ shape.sgn = "" /\ shape.hemi = ""
    /\ shape.mag > 0 /\ result = Fin(-(shape.mag))

\* C9: parse_coordinate never ends in an exception, and an empty string, a
\* string that is neither a degrees-minutes-seconds text nor a number, and
\* an argument that cannot be made a float all give None.
C9_MalformedGivesNone ==
    HasReturned
    => /\ result # Raised
       /\ shape.kind \in {"malformed", "uncoercible"} => result = None

C9_Witness ==
    /\ HasReturned /\ shape.kind = "malformed" /\ coord_str.s = <<>> /\ result = None

\* 1e-3 degree
Tolerance == Scale \div 1000

Agree(a, b) ==
    \/ a = None /\ b = None
    \/ /\ a.k = "fin" /\ b.k = "fin"
       /\ a.u - b.u <= Tolerance /\ b.u - a.u <= Tolerance

\* the value a degrees-minutes-seconds text with a marker writes
MarkedValue == IF shape.hemi \in {"S", "W"} THEN -(shape.mag) ELSE shape.mag

\* parse_coordinate of the decimal string of v, on the same axis
OfDecimalString(v) == parse_coordinate(StrArg(StrFloat(Fin(v))), is_latitude)

\* C10 as stated: for a degrees-minutes-seconds text with a hemisphere
\* marker the result agrees, within 1e-3 degree, with parse_coordinate of
\* the decimal string of the same signed value.
C10_DmsAgreesWithDecimal ==
    (HasReturned /\ shape.kind = "dms" /\ shape.hemi # "")
    => Agree(result, OfDecimalString(MarkedValue))

\* C10 as amended: the result is None (out of the axis range) or the signed
\* value |d| + m/60 + s/3600; with a marker of South or West, or a value of
\* zero, it agrees within 1e-3 degree with parse_coordinate of the decimal
\* string of that value (21 28 32 S agrees with -21.4755); with a marker of
\* North or East the decimal string of the value parses to minus the value.
C10_DmsMagnitudeAndDecimal ==
    (HasReturned /\ shape.kind = "dms" /\ shape.hemi # "")
    => /\ result = (IF InAxis THEN Fin(MarkedValue) ELSE None)
       /\ (shape.hemi \in {"S", "W"} \/ shape.mag = 0)
              => Agree(result, OfDecimalString(MarkedValue))
       /\ (shape.hemi \in {"N", "E"} /\ InAxis)
              => OfDecimalString(MarkedValue) = Fin(-MarkedValue)
       /\ (shape.hemi = "S" /\ shape.mag = DmsUnits(21, 28, 32))
              => Agree(result, parse_coordinate(
                     StrArg(<<"-", "2", "1", ".", "4", "7", "5", "5">>), is_latitude))

C10_Witness ==
    /\ HasReturned /\ shape.kind = "dms" /\ shape.hemi = "S" /\ is_latitude
    /\ shape.mag = DmsUnits(21, 28, 32) /\ result = Fin(-DmsUnits(21, 28, 32))

-----------------------------------------------------------------------------
(* Properties of carregar_dados (Spec)                                     *)

Loaded == pc \in {"loaded", "reloaded"}

\* a finite coordinate pair inside the regional box
WithinRegion(lat, lon) ==
    /\ lat.k = "fin" /\ lon.k = "fin"
    /\ lat.u >= BoxLatMin * Scale /\ lat.u <= BoxLatMax * Scale
    /\ lon.u >= BoxLonMin * Scale /\ lon.u <= BoxLonMax * Scale

\* C2: every sheet row whose NUMERO_PI is a key of correcoes is in the
\* returned table with exactly the coordinates of correcoes, whatever its
\* coordinate cells hold.
C2_CorrectedRowsReturned ==
    Loaded => \A i \in 1..Len(sheet) :
                  sheet[i].NUMERO_PI \in DOMAIN correcoes
                  => \E j \in 1..Len(df) :
                         /\ df[j].idx = i
                         /\ df[j].Latitude = correcoes[sheet[i].NUMERO_PI][1]
                         /\ df[j].Longitude = correcoes[sheet[i].NUMERO_PI][2]

\* C3 as stated: carregar_dados run again on the returned table, with the
\* coordinates as numbers, returns the same rows with the same latitude and
\* longitude.
C3_RerunSameCoordinates ==
    pc = "reloaded"
    => /\ Len(df2) = Len(df)
       /\ \A j \in 1..Len(df) :
              /\ df2[j].NUMERO_PI = df[j].NUMERO_PI
              /\ df2[j].Latitude = df[j].Latitude
              /\ df2[j].Longitude = df[j].Longitude

\* C3 as amended: the second run returns the same rows, none removed, each
\* with the same longitude; a latitude that is not positive is the same, and
\* a latitude in (0, 5] comes back negated.
C3_RerunSameRows ==
    pc = "reloaded"
    => /\ Len(df2) = Len(df) /\ removed2 = <<>>
       /\ \A j \in 1..Len(df) :
              /\ df2[j].NUMERO_PI = df[j].NUMERO_PI
              /\ df2[j].Longitude = df[j].Longitude
              /\ df2[j].Latitude = (IF df[j].Latitude.u > 0 THEN Fin(-(df[j].Latitude.u))
                                    ELSE df[j].Latitude)

C3_Witness ==
    /\ pc = "reloaded" /\ Len(df) = 2
    /\ df[1].Latitude.u > 0 /\ df2[1].Latitude = Fin(-(df[1].Latitude.u))
    /\ df[2].Latitude.u < 0 /\ df2[2].Latitude = df[2].Latitude

\* C7: every row of the returned table has a latitude in [-34, 5] and a
\* longitude in [-74, -34], neither missing, and a row whose coordinates
\* parse but lie outside that box is not in the table.
C7_ReturnedRowsInRegion ==
    Loaded
    => /\ \A j \in 1..Len(df) : WithinRegion(df[j].Latitude, df[j].Longitude)
       /\ \A i \in 1..Len(df_before_filter) :
              ~WithinRegion(df_before_filter[i].Latitude, df_before_filter[i].Longitude)
              => \A j \in 1..Len(df) : df[j].idx # i

C7_Witness ==
    /\ pc = "loaded" /\ Len(df) = 1
    /\ \E i \in 1..Len(df_before_filter) :
           /\ df_before_filter[i].Latitude = Fin(10 * Scale)
           /\ df_before_filter[i].Longitude.k = "fin"
           /\ df[1].idx # i

\* C8: every sheet row is in exactly one of the returned table and the
\* report of removed rows, which prints its NUMERO_PI and the two parsed
\* (or missing) coordinates; the two counts add up to the rows of the sheet
\* and no row makes the run fail.
C8_EveryRowReturnedOrReported ==
    /\ pc # "raised"
    /\ Loaded
       => /\ Len(df) + Len(removed) = Len(sheet)
          /\ \A i \in 1..Len(sheet) :
                 (\E j \in 1..Len(df) : df[j].idx = i)
                 # (\E j \in 1..Len(removed) : removed[j].idx = i)
          /\ Len(printed) = Len(removed)
          /\ \A j \in 1..Len(removed) :
                 /\ printed[j].NUMERO_PI = sheet[removed[j].idx].NUMERO_PI
                 /\ printed[j].Latitude = df_before_filter[removed[j].idx].Latitude
                 /\ printed[j].Longitude = df_before_filter[removed[j].idx].Longitude

C8_Witness ==
    /\ pc = "loaded" /\ Len(df) = 1 /\ Len(removed) = 1
    /\ removed[1].Latitude = None /\ printed[1].NUMERO_PI = sheet[removed[1].idx].NUMERO_PI

====
